---- MODULE Spec2Model ----
(***************************************************************************)
(* Companion plugin (src/main.ts): the debounced re-embedding of           *)
(* observations.md, the persisted index observation_embeddings.json and    *)
(* the top-k retrieval of a chat turn.                                     *)
(*                                                                         *)
(* Time is counted in seconds.  A string is a sequence of one-character    *)
(* strings, so that split and trim are computed and not assumed.           *)
(***************************************************************************)
EXTENDS Integers, Sequences, FiniteSets, TLC

\* ------------------------------------------------------------------ bounds
MaxContentLen == 3      \* characters of observations.md
MaxModify == 2          \* 'modify' events of the vault
MaxTurns == 1           \* clicks on the send button
MaxIndex == 3           \* observations of an index handed to the ranking
MaxK == 2               \* largest k handed to the ranking
TickSeconds == 5        \* the longest step of the clock, in seconds

\* --------------------------------------------------------------- constants
QuietPeriod == 10       \* setTimeout(..., 10000): 10 seconds
DefaultK == 5           \* findRelevantObservations(userMessage, k = 5)

NL == "\n"
Alphabet == {"a", " ", NL}
Whitespace == {" ", NL}
Files == {"observations.md", "other.md"}

\* ----------------------------------------------------------------- strings
Strings(n) == UNION {[1..m -> Alphabet] : m \in 0..n}

\* The index of the first separator of s, or 0.
IndexOfNL(s) ==
    IF \E i \in 1..Len(s) : s[i] = NL
    THEN CHOOSE i \in 1..Len(s) : s[i] = NL /\ \A j \in 1..(i - 1) : s[j] # NL
    ELSE 0

\* content.split('\n')
RECURSIVE Split(_)
Split(s) ==
    LET i == IndexOfNL(s)
    IN  IF i = 0 THEN <<s>>
        ELSE <<SubSeq(s, 1, i - 1)>> \o Split(SubSeq(s, i + 1, Len(s)))

\* line.trim()
RECURSIVE TrimLeft(_)
TrimLeft(s) ==
    IF s # <<>> /\ Head(s) \in Whitespace THEN TrimLeft(Tail(s)) ELSE s

RECURSIVE TrimRight(_)
TrimRight(s) ==
    IF s # <<>> /\ s[Len(s)] \in Whitespace
    THEN TrimRight(SubSeq(s, 1, Len(s) - 1)) ELSE s

Trim(s) == TrimRight(TrimLeft(s))

\* ------------------------------------------------------------------- state
VARIABLES
    content,          \* observations.md
    debounceTimeout,  \* onload's debounceTimeout: 0 (null) or a timer handle
    timers,           \* the event loop's armed timers: [id, remaining]
    timerSeq,         \* handles given out so far
    refreshes,        \* the timer callbacks started so far, in order
    indexFile,        \* observation_embeddings.json: [exists, data]
    turns,            \* the send-button handlers started so far, in order
    nModify,          \* 'modify' events so far
    sinceNotify,      \* seconds since the last event on observations.md
    nNotify,          \* events on observations.md so far
    bursts,           \* events that came first or more than QuietPeriod after
    edgeNotify,       \* an event came exactly QuietPeriod after the previous
    lastWriter,       \* the refresh whose write the document holds, or 0
    rank              \* the ranking under test (SpecRank)

vars == <<content, debounceTimeout, timers, timerSeq, refreshes, indexFile,
          turns, nModify, sinceNotify, nNotify, bursts, edgeNotify, lastWriter,
          rank>>

Absent == [exists |-> FALSE, data |-> <<>>]
NoRank == [pc |-> "none"]

\* Embedding vectors: number[] of one fixed length.
Components == {-1, 0, 1}
Vectors == {<<x, y>> : x, y \in Components}
\* What the embedding endpoint answers in the plugin's runs.
ProviderVectors == {<<1, 0>>, <<1, 1>>}

Min(a, b) == IF a < b THEN a ELSE b

\* ---------------------------------------------------------------- debounce
\* clearTimeout(debounceTimeout): a handle that fired or was cleared is a no-op.
ClearTimeoutLeak(ts, h) == ts
ClearTimeout(ts, h) == {t \in ts : t.id # h}

\* setTimeout(callback, 10000)
SetTimeout(ts, h) == ts \cup {[id |-> h, remaining |-> QuietPeriod]}

\* this.app.vault.on('modify', ...): the file was written, then the handler ran.
Modify(file, c) ==
    /\ nModify < MaxModify
    /\ IF file = "observations.md"
       THEN /\ content' = c
            /\ nModify' = nModify + 1
            /\ timers' = SetTimeout(
                   IF debounceTimeout # 0
                   THEN ClearTimeout(timers, debounceTimeout) ELSE timers,
                   timerSeq + 1)
            /\ timerSeq' = timerSeq + 1
            /\ debounceTimeout' = timerSeq + 1
            /\ nNotify' = nNotify + 1
            /\ bursts' = IF nNotify = 0 \/ sinceNotify > QuietPeriod
                         THEN bursts + 1 ELSE bursts
            /\ edgeNotify' = (edgeNotify \/ (nNotify > 0 /\ sinceNotify = QuietPeriod))
            /\ sinceNotify' = 0
       ELSE UNCHANGED <<content, timers, timerSeq, debounceTimeout, nModify,
                        nNotify, bursts, edgeNotify, sinceNotify>>
    /\ UNCHANGED <<refreshes, indexFile, turns, lastWriter, rank>>

\* The clock moves on, up to the next timer that comes due: a due timer runs
\* before any later instant is reached.
Elapse(ts) ==
    IF \E t \in ts : t.remaining < TickSeconds
    THEN (CHOOSE t \in ts : \A o \in ts : t.remaining <= o.remaining).remaining
    ELSE TickSeconds

Tick ==
    /\ \A t \in timers : t.remaining > 0
    /\ timers' = {[t EXCEPT !.remaining = @ - Elapse(timers)] : t \in timers}
    /\ sinceNotify' = Min(sinceNotify + Elapse(timers), QuietPeriod + 1)
    /\ UNCHANGED <<content, debounceTimeout, timerSeq, refreshes, indexFile,
                   turns, nModify, nNotify, bursts, edgeNotify, lastWriter, rank>>

\* The timer callback starts: it awaits this.app.vault.read(file).
NewRefresh(delay) ==
    [pc |-> "read", lines |-> <<>>, i |-> 0, embeddingsData |-> <<>>,
     calls |-> <<>>, delay |-> delay, wrote |-> FALSE, writes |-> 0]

TimerFire(t) ==
    /\ t \in timers
    /\ t.remaining = 0
    /\ timers' = timers \ {t}
    /\ refreshes' = Append(refreshes, NewRefresh(sinceNotify))
    /\ UNCHANGED <<content, debounceTimeout, timerSeq, indexFile, turns,
                   nModify, sinceNotify, nNotify, bursts, edgeNotify, lastWriter, rank>>

\* ----------------------------------------------------------------- refresh
\* The first line at or after idx that the loop does not skip, or Len + 1.
NextLine(lines, idx) ==
    IF \E j \in idx..Len(lines) : Len(Trim(lines[j])) # 0
    THEN CHOOSE j \in idx..Len(lines) :
            /\ Len(Trim(lines[j])) # 0
            /\ \A m \in idx..(j - 1) : Len(Trim(lines[m])) = 0
    ELSE Len(lines) + 1

IndexTexts(file) == {file.data[j].text : j \in 1..Len(file.data)}

\* generateAndStoreEmbeddings from line idx up to its next await: the call of
\* openai.embeddings.create for the next line kept, or adapter.write.
RunLoopNoJoin(rec, idx, file) ==
    LET j == NextLine(rec.lines, idx)
    IN  IF j <= Len(rec.lines)
        THEN [rec EXCEPT !.pc = IF NextLine(rec.lines, j + 1) <= Len(rec.lines)
                                THEN "embed" ELSE "write",
                 !.i = j,
                 !.calls = Append(@, [text |-> rec.lines[j],
                                      cached |-> rec.lines[j] \in IndexTexts(file),
                                      status |-> "pending",
                                      embedding |-> <<>>])]
        ELSE [rec EXCEPT !.pc = "write", !.i = j]
RunLoop(rec, idx, file) ==
    LET j == NextLine(rec.lines, idx)
    IN  IF j <= Len(rec.lines)
        THEN [rec EXCEPT !.pc = "embed", !.i = j,
                 !.calls = Append(@, [text |-> rec.lines[j],
                                      cached |-> rec.lines[j] \in IndexTexts(file),
                                      status |-> "pending",
                                      embedding |-> <<>>])]
        ELSE [rec EXCEPT !.pc = "write", !.i = j]

\* vault.read resolves; content.split; generateAndStoreEmbeddings(lines).
ReadResolve(r) ==
    /\ r \in 1..Len(refreshes)
    /\ refreshes[r].pc = "read"
    /\ refreshes' = [refreshes EXCEPT ![r] =
           RunLoop([@ EXCEPT !.lines = Split(content)], 1, indexFile)]
    /\ UNCHANGED <<content, debounceTimeout, timers, timerSeq, indexFile, turns,
                   nModify, sinceNotify, nNotify, bursts, edgeNotify, lastWriter, rank>>

\* embeddingsData.push({text: line, embedding: response.data[0].embedding})
PushTrimmed(data, line, v) == Append(data, [text |-> Trim(line), embedding |-> v])
Push(data, line, v) == Append(data, [text |-> line, embedding |-> v])

LogResult(calls, status, v) ==
    [calls EXCEPT ![Len(calls)] = [@ EXCEPT !.status = status, !.embedding = v]]

\* openai.embeddings.create resolves with v.
EmbedResolve(r, v) ==
    /\ r \in 1..Len(refreshes)
    /\ refreshes[r].pc = "embed"
    /\ LET rec == refreshes[r]
           got == [rec EXCEPT
                     !.embeddingsData = Push(@, rec.lines[rec.i], v),
                     !.calls = LogResult(@, "ok", v)]
       IN  refreshes' = [refreshes EXCEPT ![r] = RunLoop(got, rec.i + 1, indexFile)]
    /\ UNCHANGED <<content, debounceTimeout, timers, timerSeq, indexFile, turns,
                   nModify, sinceNotify, nNotify, bursts, edgeNotify, lastWriter, rank>>

\* openai.embeddings.create rejects: nothing catches it, the callback ends.
EmbedReject(r) ==
    /\ r \in 1..Len(refreshes)
    /\ refreshes[r].pc = "embed"
    /\ refreshes' = [refreshes EXCEPT ![r] =
           [@ EXCEPT !.pc = "failed", !.calls = LogResult(@, "error", <<>>)]]
    /\ UNCHANGED <<content, debounceTimeout, timers, timerSeq, indexFile, turns,
                   nModify, sinceNotify, nNotify, bursts, edgeNotify, lastWriter, rank>>

\* JSON.stringify(embeddingsData, null, 2): an array of {text, embedding}.
Stringify(data) ==
    [j \in 1..Len(data) |-> [text |-> data[j].text, embedding |-> data[j].embedding]]

\* adapter.write resolves: the document is replaced; then the Notice.
WriteResolve(r) ==
    /\ r \in 1..Len(refreshes)
    /\ refreshes[r].pc = "write"
    /\ indexFile' = [exists |-> TRUE, data |-> Stringify(refreshes[r].embeddingsData)]
    /\ refreshes' = [refreshes EXCEPT ![r] = [@ EXCEPT !.pc = "done", !.wrote = TRUE, !.writes = @ + 1]]
    /\ lastWriter' = r
    /\ UNCHANGED <<content, debounceTimeout, timers, timerSeq, turns,
                   nModify, sinceNotify, nNotify, bursts, edgeNotify, rank>>

\* adapter.write rejects: the document stays as it was.
WriteReject(r) ==
    /\ r \in 1..Len(refreshes)
    /\ refreshes[r].pc = "write"
    /\ refreshes' = [refreshes EXCEPT ![r] = [@ EXCEPT !.pc = "failed"]]
    /\ UNCHANGED <<content, debounceTimeout, timers, timerSeq, indexFile, turns,
                   nModify, sinceNotify, nNotify, bursts, edgeNotify, lastWriter, rank>>

\* ----------------------------------------------------------------- ranking
\* A similarity is the number num / sqrt(den) with den > 0, or NaN.
NaN == [nan |-> TRUE, num |-> 0, den |-> 1]

RECURSIVE DotFrom(_, _, _)
DotFrom(vecA, vecB, idx) ==
    IF idx > Len(vecA) THEN 0
    ELSE vecA[idx] * vecB[idx] + DotFrom(vecA, vecB, idx + 1)

\* magA * magB is 0 exactly when one vector is all zeros, and then the dot
\* product is 0 as well: 0 / 0 is NaN.
cosineSimilarity(vecA, vecB) ==
    LET dotProduct == DotFrom(vecA, vecB, 1)
        magA2 == DotFrom(vecA, vecA, 1)
        magB2 == DotFrom(vecB, vecB, 1)
    IN  IF magA2 * magB2 = 0 THEN NaN
        ELSE [nan |-> FALSE, num |-> dotProduct, den |-> magA2 * magB2]

SignedSquare(x) == IF x < 0 THEN -(x * x) ELSE x * x

\* s1 > s2 of two numbers: x |-> sign(x) * x^2 is increasing.
Greater(s1, s2) == SignedSquare(s1.num) * s2.den > SignedSquare(s2.num) * s1.den

\* (a, b) => b.similarity - a.similarity, by its sign; NaN counts as +0 in sort.
Compare(a, b) ==
    IF a.nan \/ b.nan THEN 0
    ELSE IF Greater(b, a) THEN 1
    ELSE IF Greater(a, b) THEN -1
    ELSE 0

\* embeddingsData.map(observation => ({text, similarity}))
Scores(data, q) ==
    [j \in 1..Len(data) |->
        [text |-> data[j].text, similarity |-> cosineSimilarity(data[j].embedding, q)]]

Perms(n) == {p \in [1..n -> 1..n] : \A i, j \in 1..n : p[i] = p[j] => i = j}

\* Array.prototype.sort needs a consistent comparator: "equal" is transitive.
Consistent(sc) ==
    \A i, j, m \in 1..Len(sc) :
        (Compare(sc[i].similarity, sc[j].similarity) = 0
            /\ Compare(sc[j].similarity, sc[m].similarity) = 0)
        => Compare(sc[i].similarity, sc[m].similarity) = 0

\* The orders sort may leave: the stable descending order, or, with a
\* comparator that is not consistent, an implementation-defined permutation.
SortOrders(sc) ==
    IF Consistent(sc)
    THEN {p \in Perms(Len(sc)) :
            \A i, j \in 1..Len(sc) : i < j =>
                LET c == Compare(sc[p[i]].similarity, sc[p[j]].similarity)
                IN  c < 0 \/ (c = 0 /\ p[i] < p[j])}
    ELSE Perms(Len(sc))

\* .slice(0, k) of the sorted array, as positions of the index.
Slice(p, k) == SubSeq(p, 1, Min(k, Len(p)))

\* .map(obs => obs.text)
Texts(sc, p) == [i \in 1..Len(p) |-> sc[p[i]].text]

\* What findRelevantObservations may return for a loaded index.
FindResults(data, q, k) ==
    {Texts(Scores(data, q), Slice(p, k)) : p \in SortOrders(Scores(data, q))}

\* -------------------------------------------------------------------- chat
Messages == {<<>>, <<" ">>, <<"a">>}

NewTurn(msg) ==
    [pc |-> "readIndex", userMessage |-> msg, data |-> <<>>, context |-> <<>>,
     absentAtRead |-> FALSE, embedFailed |-> FALSE, generated |-> FALSE,
     readFrom |-> 0, racing |-> FALSE]

\* sendButton.onclick up to findRelevantObservations' adapter.read.
Send(msg) ==
    /\ Len(turns) < MaxTurns
    /\ turns' = IF Len(Trim(msg)) = 0 THEN turns ELSE Append(turns, NewTurn(Trim(msg)))
    /\ UNCHANGED <<content, debounceTimeout, timers, timerSeq, refreshes, indexFile,
                   nModify, sinceNotify, nNotify, bursts, edgeNotify, lastWriter, rank>>

\* A refresh is awaiting an embedding call or its write.
Racing == \E r \in 1..Len(refreshes) : refreshes[r].pc \in {"embed", "write"}

\* JSON.parse of the document read: the array as it was written.
Parse(file) == file.data

\* A reader handed the array a running refresh is still building.
ReadIndexShared(u) ==
    /\ u \in 1..Len(turns)
    /\ turns[u].pc = "readIndex"
    /\ \E r \in 1..Len(refreshes) :
          turns' = [turns EXCEPT ![u] =
              [@ EXCEPT !.pc = "embedQuery", !.data = refreshes[r].embeddingsData,
                        !.readFrom = r, !.racing = Racing]]
    /\ UNCHANGED <<content, debounceTimeout, timers, timerSeq, refreshes, indexFile,
                   nModify, sinceNotify, nNotify, bursts, edgeNotify, lastWriter, rank>>

\* adapter.read settles: it rejects when the document is absent, and the
\* handler's catch shows the apology; else JSON.parse and the query's embedding.
ReadIndexSettle(u) ==
    /\ u \in 1..Len(turns)
    /\ turns[u].pc = "readIndex"
    /\ turns' = [turns EXCEPT ![u] =
           IF indexFile.exists
           THEN [@ EXCEPT !.pc = "embedQuery", !.data = Parse(indexFile),
                          !.readFrom = lastWriter, !.racing = Racing]
           ELSE [@ EXCEPT !.pc = "apology", !.absentAtRead = TRUE,
                          !.racing = Racing]]
    /\ UNCHANGED <<content, debounceTimeout, timers, timerSeq, refreshes, indexFile,
                   nModify, sinceNotify, nNotify, bursts, edgeNotify, lastWriter, rank>>

\* The query's embedding resolves: rank, join, and call chat.completions.create.
EmbedQueryResolve(u, v) ==
    /\ u \in 1..Len(turns)
    /\ turns[u].pc = "embedQuery"
    /\ \E res \in FindResults(turns[u].data, v, DefaultK) :
          turns' = [turns EXCEPT ![u] =
              [@ EXCEPT !.pc = "generate", !.context = res, !.generated = TRUE]]
    /\ UNCHANGED <<content, debounceTimeout, timers, timerSeq, refreshes, indexFile,
                   nModify, sinceNotify, nNotify, bursts, edgeNotify, lastWriter, rank>>

\* What the handler does when findRelevantObservations rejects on the query.
ApologizeSwallow(t) ==
    [t EXCEPT !.pc = "generate", !.embedFailed = TRUE, !.generated = TRUE]
Apologize(t) == [t EXCEPT !.pc = "apology", !.embedFailed = TRUE]

\* The query's embedding rejects: findRelevantObservations rejects, catch.
EmbedQueryReject(u) ==
    /\ u \in 1..Len(turns)
    /\ turns[u].pc = "embedQuery"
    /\ turns' = [turns EXCEPT ![u] = Apologize(@)]
    /\ UNCHANGED <<content, debounceTimeout, timers, timerSeq, refreshes, indexFile,
                   nModify, sinceNotify, nNotify, bursts, edgeNotify, lastWriter, rank>>

\* chat.completions.create settles: the reply, or the catch's apology.
GenerateSettle(u, ok) ==
    /\ u \in 1..Len(turns)
    /\ turns[u].pc = "generate"
    /\ turns' = [turns EXCEPT ![u] = [@ EXCEPT !.pc = IF ok THEN "replied" ELSE "apology"]]
    /\ UNCHANGED <<content, debounceTimeout, timers, timerSeq, refreshes, indexFile,
                   nModify, sinceNotify, nNotify, bursts, edgeNotify, lastWriter, rank>>

\* ----------------------------------------------------------- specification
Init ==
    /\ content = <<>>
    /\ debounceTimeout = 0
    /\ timers = {}
    /\ timerSeq = 0
    /\ refreshes = <<>>
    /\ indexFile = Absent
    /\ turns = <<>>
    /\ nModify = 0
    /\ sinceNotify = 0
    /\ nNotify = 0
    /\ bursts = 0
    /\ edgeNotify = FALSE
    /\ lastWriter = 0
    /\ rank = NoRank

\* The debounced refresh pipeline, the corpus written from the set cs.
Pipeline(cs) ==
    \/ \E file \in Files, c \in cs : Modify(file, c)
    \/ Tick
    \/ \E t \in timers : TimerFire(t)
    \/ \E r \in 1..Len(refreshes) : ReadResolve(r)
    \/ \E r \in 1..Len(refreshes), v \in ProviderVectors : EmbedResolve(r, v)
    \/ \E r \in 1..Len(refreshes) : EmbedReject(r)
    \/ \E r \in 1..Len(refreshes) : WriteResolve(r)
    \/ \E r \in 1..Len(refreshes) : WriteReject(r)

Chat ==
    \/ \E msg \in Messages : Send(msg)
    \/ \E u \in 1..Len(turns) : ReadIndexSettle(u)
    \/ \E u \in 1..Len(turns), v \in ProviderVectors : EmbedQueryResolve(u, v)
    \/ \E u \in 1..Len(turns) : EmbedQueryReject(u)
    \/ \E u \in 1..Len(turns), ok \in BOOLEAN : GenerateSettle(u, ok)

\* The plugin's refreshes over every corpus of the bound.
Next == Pipeline(Strings(MaxContentLen))

Spec == Init /\ [][Next]_vars

\* Chat turns racing the refreshes, over the corpora without blanks.
ChatContents == {c \in Strings(MaxContentLen) : \A i \in 1..Len(c) : c[i] # " "}

NextChat == Pipeline(ChatContents) \/ Chat

SpecChat == Init /\ [][NextChat]_vars

\* ---------------------------------------------- the ranking on its own
\* The j-th text of an index under test: j letters.
RankText(j) == [i \in 1..j |-> "a"]

RankIndexes ==
    UNION {{[j \in 1..n |-> [text |-> RankText(j), embedding |-> e[j]]] :
                e \in [1..n -> Vectors]} : n \in 0..MaxIndex}

InitRank ==
    /\ content = <<>>
    /\ debounceTimeout = 0
    /\ timers = {}
    /\ timerSeq = 0
    /\ refreshes = <<>>
    /\ indexFile = Absent
    /\ turns = <<>>
    /\ nModify = 0
    /\ sinceNotify = 0
    /\ nNotify = 0
    /\ bursts = 0
    /\ edgeNotify = FALSE
    /\ lastWriter = 0
    /\ rank \in {[pc |-> "input", data |-> d, query |-> q, k |-> k,
                   scores |-> <<>>, order |-> <<>>, result |-> <<>>] :
                     d \in RankIndexes, q \in Vectors, k \in 0..MaxK}

\* similarityScores = embeddingsData.map(...)
RankScore ==
    /\ rank.pc = "input"
    /\ rank' = [rank EXCEPT !.pc = "scored", !.scores = Scores(rank.data, rank.query)]
    /\ UNCHANGED <<content, debounceTimeout, timers, timerSeq, refreshes, indexFile,
                   turns, nModify, sinceNotify, nNotify, bursts, edgeNotify, lastWriter>>

\* similarityScores.sort(...)
RankSort ==
    /\ rank.pc = "scored"
    /\ \E p \in SortOrders(rank.scores) :
          rank' = [rank EXCEPT !.pc = "sorted", !.order = p]
    /\ UNCHANGED <<content, debounceTimeout, timers, timerSeq, refreshes, indexFile,
                   turns, nModify, sinceNotify, nNotify, bursts, edgeNotify, lastWriter>>

\* .slice(0, k) and .map(obs => obs.text)
RankReturn ==
    /\ rank.pc = "sorted"
    /\ rank' = [rank EXCEPT !.pc = "returned", !.order = Slice(rank.order, rank.k),
                            !.result = Texts(rank.scores, Slice(rank.order, rank.k))]
    /\ UNCHANGED <<content, debounceTimeout, timers, timerSeq, refreshes, indexFile,
                   turns, nModify, sinceNotify, nNotify, bursts, edgeNotify, lastWriter>>

NextRank == RankScore \/ RankSort \/ RankReturn

SpecRank == InitRank /\ [][NextRank]_vars

\* ------------------------------------------------------------------ claims
Refreshes == 1..Len(refreshes)

\* C1: a refresh starts exactly QuietPeriod seconds after the last event on
\* observations.md and never earlier or later; once more than QuietPeriod
\* has passed since the last event no timer is left armed; and, as long as
\* no event came exactly QuietPeriod after the previous one, the refreshes
\* started are one per burst: all the bursts when the quiet period of the
\* last one is over, all but the last burst while it still runs.
DebounceOneRefreshPerBurst ==
    /\ \A r \in Refreshes : refreshes[r].delay = QuietPeriod
    /\ sinceNotify > QuietPeriod => timers = {}
    /\ (~edgeNotify /\ nNotify > 0) =>
          /\ sinceNotify < QuietPeriod => Len(refreshes) = bursts - 1
          /\ sinceNotify = QuietPeriod => Len(refreshes) \in {bursts - 1, bursts}
          /\ sinceNotify > QuietPeriod => Len(refreshes) = bursts
    /\ nNotify = 0 => Len(refreshes) = 0

\* Two events less than QuietPeriod apart, and the one refresh of their burst.
BurstStartedOneRefresh ==
    /\ nNotify = 2
    /\ bursts = 1
    /\ ~edgeNotify
    /\ sinceNotify > QuietPeriod
    /\ Len(refreshes) = 1

\* The executions of generateAndStoreEmbeddings awaiting a call or the write.
InFlight == {r \in Refreshes : refreshes[r].pc \in {"embed", "write"}}

\* C2: at most one execution of generateAndStoreEmbeddings is in flight.
RefreshesSerialized == Cardinality(InFlight) <= 1

\* The embedding calls of refresh r that failed.
Errors(r) == {j \in 1..Len(refreshes[r].calls) : refreshes[r].calls[j].status = "error"}

\* C3: a refresh one of whose embedding calls failed is not aborted by it:
\* a refresh ends without writing only when the write itself failed.
LineFailureIsolated ==
    \A r \in Refreshes : Errors(r) # {} => refreshes[r].pc # "failed"

\* A line with a character that is not whitespace.
NonBlank(line) == \E i \in 1..Len(line) : line[i] \notin Whitespace

Kept(lines) == SelectSeq(lines, NonBlank)

IsRebuildOf(data, rec) ==
    /\ Len(data) = Len(Kept(rec.lines))
    /\ Len(rec.calls) = Len(Kept(rec.lines))
    /\ \A j \in 1..Len(data) :
          /\ data[j].text = Kept(rec.lines)[j]
          /\ rec.calls[j].text = Kept(rec.lines)[j]
          /\ rec.calls[j].status = "ok"
          /\ data[j].embedding = rec.calls[j].embedding

\* C4: the document a refresh wrote holds, in corpus order, one observation
\* per line that has a character other than whitespace, its text the line
\* as it stands and its embedding the provider's answer for that line, and
\* nothing else; it is the whole document, and no entry's text is blank.
RefreshRebuildsIndex ==
    /\ lastWriter = 0 => ~indexFile.exists
    /\ lastWriter # 0 =>
          /\ indexFile.exists
          /\ refreshes[lastWriter].wrote
          /\ IsRebuildOf(indexFile.data, refreshes[lastWriter])
    /\ \A j \in 1..Len(indexFile.data) : NonBlank(indexFile.data[j].text)
    /\ \A r \in Refreshes :
          (refreshes[r].wrote /\ Kept(refreshes[r].lines) = <<>>)
              => refreshes[r].embeddingsData = <<>>

\* A refresh wrote the one-entry index of a corpus that also has a
\* whitespace-only line.
RebuiltWithBlankLine ==
    /\ lastWriter # 0
    /\ \E j \in 1..Len(refreshes[lastWriter].lines) :
          /\ refreshes[lastWriter].lines[j] # <<>>
          /\ ~NonBlank(refreshes[lastWriter].lines[j])
    /\ Len(indexFile.data) = 1

\* s1 is strictly more than s2; a NaN is not more or less than anything.
Above(s1, s2) == ~s1.nan /\ ~s2.nan /\ Greater(s1, s2)

\* The entries of the index the ranking returned.
Taken == {rank.order[i] : i \in 1..Len(rank.order)}

\* C5: what the ranking returns is min(k, n) texts, taken from distinct
\* entries of the index, no later one scoring strictly more than an earlier
\* one, and no entry left out scoring strictly more than a returned one.
TopKRanked ==
    rank.pc = "returned" =>
        /\ Len(rank.result) = Min(rank.k, Len(rank.data))
        /\ Len(rank.order) = Len(rank.result)
        /\ \A i, j \in 1..Len(rank.order) : rank.order[i] = rank.order[j] => i = j
        /\ \A i \in 1..Len(rank.order) : rank.result[i] = rank.data[rank.order[i]].text
        /\ \A i, j \in 1..Len(rank.order) : i < j =>
              ~Above(rank.scores[rank.order[j]].similarity,
                     rank.scores[rank.order[i]].similarity)
        /\ \A o \in (1..Len(rank.data)) \ Taken : \A t \in Taken :
              ~Above(rank.scores[o].similarity, rank.scores[t].similarity)

IsZero(v) == \A i \in 1..Len(v) : v[i] = 0

\* C6: the similarity of a pair with an all-zero vector is the number 0, so
\* no NaN is among the scores handed to sort.
ZeroMagnitudeScoresZero ==
    rank.pc # "input" =>
        \A j \in 1..Len(rank.scores) :
            /\ ~rank.scores[j].similarity.nan
            /\ (IsZero(rank.data[j].embedding) \/ IsZero(rank.query))
                  => rank.scores[j].similarity.num = 0

Turns == 1..Len(turns)

\* C7: a turn whose query embedding failed ends with the apology, holds no
\* list of texts, and made no generation call.
QueryFailureSurfaces ==
    \A u \in Turns : turns[u].embedFailed =>
        /\ turns[u].pc = "apology"
        /\ ~turns[u].generated
        /\ turns[u].context = <<>>

\* A turn read a document with an entry, and then its query embedding failed.
QueryFailedOverIndex ==
    \E u \in Turns :
        /\ turns[u].embedFailed
        /\ turns[u].data # <<>>
        /\ turns[u].pc = "apology"

\* C8: a turn that found the document absent goes on to the generation call
\* with an empty context instead of ending in the apology.
MissingIndexNonFatal ==
    \A u \in Turns : turns[u].absentAtRead =>
        (turns[u].pc = "apology" => turns[u].generated)

\* C9: no two entries of the persisted document have the same text.
TextIsUniqueKey ==
    \A i, j \in 1..Len(indexFile.data) :
        indexFile.data[i].text = indexFile.data[j].text => i = j

\* C10: no embedding call of a refresh is for a text that the persisted
\* document held when the call was made.
NoRedundantEmbedding ==
    \A r \in Refreshes : \A j \in 1..Len(refreshes[r].calls) :
        ~refreshes[r].calls[j].cached

\* C11: a refresh that has issued its write, or has written, has no
\* embedding call of its own outstanding (each was answered before the
\* write was issued), and no refresh writes the document more than once.
JoinBeforePersist ==
    \A r \in Refreshes :
        /\ (refreshes[r].pc \in {"write", "done"} \/ refreshes[r].wrote) =>
              \A j \in 1..Len(refreshes[r].calls) :
                  refreshes[r].calls[j].status = "ok"
        /\ refreshes[r].writes <= 1
        /\ refreshes[r].wrote <=> refreshes[r].writes = 1

\* A refresh wrote the document after two embedding calls.
WroteAfterTwoCalls ==
    \E r \in Refreshes :
        /\ refreshes[r].wrote
        /\ Len(refreshes[r].calls) = 2

\* C12: a turn's read of the document is never held back, whatever the
\* refreshes are doing; what a turn read is the whole array some refresh
\* wrote before the read, the rebuild of the lines that refresh read; and a
\* turn that found no document read nothing, no refresh having written yet.
QueryReadsWholeRefresh ==
    \A u \in Turns :
        /\ turns[u].pc = "readIndex" => ENABLED ReadIndexSettle(u)
        /\ (turns[u].pc # "readIndex" /\ ~turns[u].absentAtRead) =>
              /\ turns[u].readFrom \in Refreshes
              /\ refreshes[turns[u].readFrom].wrote
              /\ turns[u].data = refreshes[turns[u].readFrom].embeddingsData
              /\ IsRebuildOf(turns[u].data, refreshes[turns[u].readFrom])
        /\ turns[u].absentAtRead => (turns[u].data = <<>> /\ turns[u].readFrom = 0)

\* A turn read a document with two entries while a later refresh was
\* running, and that refresh has since replaced the document the turn holds.
QueryRacedRefresh ==
    \E u \in Turns :
        /\ turns[u].racing
        /\ Len(turns[u].data) = 2
        /\ lastWriter > turns[u].readFrom
        /\ indexFile.data # turns[u].data

\* Every timer has fired and every refresh started has written.
Settled ==
    /\ nNotify > 0
    /\ timers = {}
    /\ \A r \in Refreshes : refreshes[r].pc = "done"

DocumentTexts == [j \in 1..Len(indexFile.data) |-> indexFile.data[j].text]

\* C13: when every timer has fired and every refresh has completed with all
\* its calls and its write succeeding, the texts of the document are the
\* non-blank lines of the corpus as it stands, in order.
IndexFollowsCorpus == Settled => DocumentTexts = Kept(Split(content))

====
